---- MODULE Spec2Model ----
(***************************************************************************)
(* The SGX Enclave Page Cache (EPC) manager of                             *)
(* arch/x86/kernel/cpu/sgx/main.c: the section free lists, the global LRU, *)
(* the reclaimer, the OOM killer, the boot sanitizer and ksgxswapd.        *)
(*                                                                         *)
(* The kernel is built without CONFIG_CGROUP_SGX_EPC in this model: every  *)
(* page lives on sgx_global_lru (sgx_lru() returns &sgx_global_lru).       *)
(* There is one enclave object; its driver side (encl.c, ioctl.c) is the   *)
(* environment of main.c and is modelled from the specification.           *)
(***************************************************************************)
EXTENDS Integers, Sequences, FiniteSets, TLC

\* ------------------------------------------------------------- bounds
\* Number of EPC pages. Section 1 holds pages 1..NPages-1, section 2 holds
\* page NPages.
NPages == 3

Pages == 1..NPages
Sections == {1, 2}
NoPage == 0

\* The threads that run sgx_reclaim_epc_pages(): 1 is ksgxswapd (line 708),
\* 2 is the caller of sgx_alloc_epc_page() (line 822).
Reclaimers == {1, 2}

\* ---------------------------------------------------------- constants
SGX_MAX_NR_TO_RECLAIM == 32
SGX_NR_TO_SCAN == 16

SGX_EPC_PAGE_RECLAIMABLE == "RECLAIMABLE"
SGX_EPC_PAGE_RECLAIM_IN_PROGRESS == "RECLAIM_IN_PROGRESS"
SGX_EPC_PAGE_ENCLAVE == "ENCLAVE"
SGX_EPC_PAGE_VERSION_ARRAY == "VERSION_ARRAY"
SGX_EPC_PAGE_RECLAIM_FLAGS ==
    {SGX_EPC_PAGE_RECLAIMABLE, SGX_EPC_PAGE_RECLAIM_IN_PROGRESS,
     SGX_EPC_PAGE_ENCLAVE, SGX_EPC_PAGE_VERSION_ARRAY}

SGX_ENCL_CREATED == "CREATED"
SGX_ENCL_INITIALIZED == "INITIALIZED"
SGX_ENCL_DEAD == "DEAD"
SGX_ENCL_OOM == "OOM"
SGX_ENCL_DEAD_OR_OOM == {SGX_ENCL_DEAD, SGX_ENCL_OOM}

\* Return codes.
OK == "0"
EBUSY == "-EBUSY"
ENOMEM == "-ENOMEM"
ERESTARTSYS == "-ERESTARTSYS"
SGX_NOT_TRACKED == "SGX_NOT_TRACKED"
SGX_ERROR == "SGX_ERROR"

\* sgx_get_epc_section(): the section index is part of page->desc (line 931).
sgx_get_epc_section(p) == IF p < NPages THEN 1 ELSE 2

\* ------------------------------------------------------ list heads
\* Every struct list_head of main.c, as a key of the function lst.
PAGE_LIST(s) == <<"page_list", s>>
UNSANITIZED(s) == <<"unsanitized_page_list", s>>
SECS_LIST == <<"secs_list", 0>>
RECLAIMABLE == <<"reclaimable", 0>>
UNRECLAIMABLE == <<"unreclaimable", 0>>
ISO(r) == <<"iso", r>>

ListHeads ==
    {PAGE_LIST(s) : s \in Sections} \cup {UNSANITIZED(s) : s \in Sections}
    \cup {SECS_LIST, RECLAIMABLE, UNRECLAIMABLE} \cup {ISO(r) : r \in Reclaimers}

\* <linux/list.h>, on sequences.  list_add_tail() links the entry without
\* looking at where it is linked already; list_del() unlinks it from the
\* list it is on; list_move*() is list_del() followed by list_add*().
Range(s) == {s[i] : i \in DOMAIN s}
Without(s, p) == SelectSeq(s, LAMBDA x : x # p)
list_del(l, p) == [k \in DOMAIN l |-> Without(l[k], p)]
list_add_tail(l, p, k) == [l EXCEPT ![k] = Append(@, p)]
list_add(l, p, k) == [l EXCEPT ![k] = <<p>> \o @]
list_move(l, p, k) == list_add(list_del(l, p), p, k)
list_move_tail(l, p, k) == list_add_tail(list_del(l, p), p, k)

\* ------------------------------------------------------------- state
VARIABLES
    lst,        \* list head -> sequence of the pages linked on it
    free_cnt,   \* section -> section->free_cnt
    desc,       \* page -> the flag bits of page->desc
    owner,      \* page -> page->owner (NoOwner or EnclOwner)
    hw_fail,    \* page -> how many more times EREMOVE fails on the unsanitized page
    encl,       \* the enclave: flags, refcount, secs, pages, va, secs_child_cnt
    held,       \* pages a caller got from sgx_alloc_epc_page() and has not recorded
    swapd,      \* ksgxswapd: pc, pass and section index of the sanitizer
    al,         \* the thread in sgx_alloc_epc_page() / sgx_epc_oom()
    rc,         \* reclaimer -> its position in sgx_reclaim_epc_pages()
    wr,         \* reclaimer -> what the sgx_reclaimer_write() it just made did
    lk          \* thread -> the lock calls it has still to make and the locks it holds

vars == <<lst, free_cnt, desc, owner, hw_fail, encl, held, swapd, al, rc, wr, lk>>

\* The EPC manager's own memory, passed through the functions of main.c.
Mem == [lst |-> lst, free_cnt |-> free_cnt, desc |-> desc]
Commit(m) ==
    /\ lst' = m.lst
    /\ free_cnt' = m.free_cnt
    /\ desc' = m.desc

\* ------------------------------------------------- LRU: record and drop
\* Fault injection for sgx_record_epc_page(): the test of line 73 is lost and
\* every page goes to the reclaimable list.
sgx_record_epc_page_one_list(m, p, flags) ==
    [m EXCEPT !.desc[p] = @ \cup flags,
              !.lst = list_add_tail(@, p, RECLAIMABLE)]

\* sgx_record_epc_page(): lines 66-78.
sgx_record_epc_page(m, p, flags) ==
    [m EXCEPT !.desc[p] = @ \cup flags,
              !.lst = IF SGX_EPC_PAGE_RECLAIMABLE \in flags
                      THEN list_add_tail(@, p, RECLAIMABLE)
                      ELSE list_add_tail(@, p, UNRECLAIMABLE)]

\* Fault injection for sgx_drop_epc_page(): the test of lines 100-104 is lost.
sgx_drop_epc_page_no_busy(m, p) ==
    [m |-> [m EXCEPT !.lst = list_del(@, p),
                     !.desc[p] = @ \ SGX_EPC_PAGE_RECLAIM_FLAGS],
     ret |-> OK]

\* Fault injection for sgx_drop_epc_page(): line 108 clears the reclaimable
\* flag alone.
sgx_drop_epc_page_one_flag(m, p) ==
    IF /\ SGX_EPC_PAGE_RECLAIMABLE \in m.desc[p]
       /\ SGX_EPC_PAGE_RECLAIM_IN_PROGRESS \in m.desc[p]
    THEN [m |-> m, ret |-> EBUSY]
    ELSE [m |-> [m EXCEPT !.lst = list_del(@, p),
                          !.desc[p] = @ \ {SGX_EPC_PAGE_RECLAIMABLE}],
          ret |-> OK]

\* sgx_drop_epc_page(): lines 90-111.  Returns the memory and the return code.
sgx_drop_epc_page(m, p) ==
    IF /\ SGX_EPC_PAGE_RECLAIMABLE \in m.desc[p]
       /\ SGX_EPC_PAGE_RECLAIM_IN_PROGRESS \in m.desc[p]
    THEN [m |-> m, ret |-> EBUSY]
    ELSE [m |-> [m EXCEPT !.lst = list_del(@, p),
                          !.desc[p] = @ \ SGX_EPC_PAGE_RECLAIM_FLAGS],
          ret |-> OK]

\* ------------------------------------------------------ the free path
\* __sgx_free_epc_page(): lines 846-861.
__sgx_free_epc_page(m, p) ==
    LET s == sgx_get_epc_section(p) IN
    [m EXCEPT !.lst = list_add_tail(@, p, PAGE_LIST(s)),
              !.free_cnt[s] = @ + 1]

\* sgx_free_epc_page(): lines 869-886.  eremove is what __eremove() returns;
\* the reclaim flags are only warned about.
sgx_free_epc_page(m, p, eremove) ==
    IF eremove # OK THEN m ELSE __sgx_free_epc_page(m, p)

\* ------------------------------------------------------ the allocator
\* Fault injection for __sgx_alloc_epc_page_from_section(): line 738 is lost.
alloc_from_section_no_count(m, s) ==
    IF m.lst[PAGE_LIST(s)] = <<>>
    THEN [m |-> m, page |-> NoPage]
    ELSE LET p == Head(m.lst[PAGE_LIST(s)]) IN
         [m |-> [m EXCEPT !.lst = list_del(@, p)], page |-> p]

\* __sgx_alloc_epc_page_from_section(): lines 729-741.
\* Returns the memory and the page (NoPage for NULL).
__sgx_alloc_epc_page_from_section(m, s) ==
    IF m.lst[PAGE_LIST(s)] = <<>>
    THEN [m |-> m, page |-> NoPage]
    ELSE LET p == Head(m.lst[PAGE_LIST(s)]) IN
         [m |-> [m EXCEPT !.lst = list_del(@, p),
                          !.free_cnt[s] = @ - 1],
          page |-> p]

\* sgx_nr_free_pages(): lines 649-658.
sgx_nr_free_pages(m) == m.free_cnt[1] + m.free_cnt[2]

\* sgx_can_reclaim(): lines 660-667.
sgx_can_reclaim(m) == m.lst[RECLAIMABLE] # <<>>

\* Fault injection for sgx_should_reclaim(): the sgx_can_reclaim() half of
\* line 671 is lost.
sgx_should_reclaim_free_only(m, watermark) ==
    sgx_nr_free_pages(m) < watermark

\* sgx_should_reclaim(): lines 669-672.
sgx_should_reclaim(m, watermark) ==
    sgx_nr_free_pages(m) < watermark /\ sgx_can_reclaim(m)

\* ---------------------------------------------------------- isolation
\* kref_get_unless_zero(&encl->refcount).
kref_get_unless_zero(e) == e.refcount > 0

\* Fault injection for sgx_isolate_epc_pages(): a page whose enclave
\* reference cannot be taken is dropped without counting as scanned.
RECURSIVE sgx_isolate_epc_pages_free_drop(_, _, _, _)
sgx_isolate_epc_pages_free_drop(m, e, n, r) ==
    IF n <= 0 \/ m.lst[RECLAIMABLE] = <<>>
    THEN [m |-> m, e |-> e, n |-> n]
    ELSE LET p == Head(m.lst[RECLAIMABLE]) IN
         IF SGX_EPC_PAGE_ENCLAVE \notin m.desc[p]
         THEN sgx_isolate_epc_pages_free_drop(m, e, n - 1, r)
         ELSE IF kref_get_unless_zero(e)
         THEN sgx_isolate_epc_pages_free_drop(
                  [m EXCEPT !.desc[p] = @ \cup {SGX_EPC_PAGE_RECLAIM_IN_PROGRESS},
                            !.lst = list_move_tail(@, p, ISO(r))],
                  [e EXCEPT !.refcount = @ + 1], n - 1, r)
         ELSE sgx_isolate_epc_pages_free_drop(
                  [m EXCEPT !.desc[p] = @ \ {SGX_EPC_PAGE_RECLAIMABLE},
                            !.lst = list_del(@, p)],
                  e, n, r)

\* sgx_isolate_epc_pages(): lines 353-384, the whole loop under lru->lock.
\* n is *nr_to_scan, r the reclaimer whose iso list is dst.
\* Returns the memory, the enclave and what is left of *nr_to_scan.
RECURSIVE sgx_isolate_epc_pages(_, _, _, _)
sgx_isolate_epc_pages(m, e, n, r) ==
    IF n <= 0 \/ m.lst[RECLAIMABLE] = <<>>
    THEN [m |-> m, e |-> e, n |-> n]
    ELSE LET p == Head(m.lst[RECLAIMABLE]) IN
         IF SGX_EPC_PAGE_ENCLAVE \notin m.desc[p]
         THEN sgx_isolate_epc_pages(m, e, n - 1, r)
         ELSE IF kref_get_unless_zero(e)
         THEN sgx_isolate_epc_pages(
                  [m EXCEPT !.desc[p] = @ \cup {SGX_EPC_PAGE_RECLAIM_IN_PROGRESS},
                            !.lst = list_move_tail(@, p, ISO(r))],
                  [e EXCEPT !.refcount = @ + 1], n - 1, r)
         ELSE sgx_isolate_epc_pages(
                  [m EXCEPT !.desc[p] = @ \ {SGX_EPC_PAGE_RECLAIMABLE},
                            !.lst = list_del(@, p)],
                  e, n - 1, r)

\* sgx_reclaimer_age(): lines 113-143.  young: some mapping of the enclave
\* had the page's accessed bit set.
sgx_reclaimer_age(e, young) ==
    ~(young /\ e.flags \cap SGX_ENCL_DEAD_OR_OOM = {})

\* ------------------------------------------------------------ writeback
\* What the hardware answers to the WRITEBACKs of one page: the first hw.nt
\* calls of __sgx_encl_ewb() return SGX_NOT_TRACKED, the next returns hw.final.
EwbHardware == [nt : 0..3, final : {OK, SGX_ERROR}]
__sgx_encl_ewb(hw, k) == IF k <= hw.nt THEN SGX_NOT_TRACKED ELSE hw.final

\* Fault injection for sgx_encl_ewb(): the CPU set is computed and the IPI
\* sent before ETRACK.
sgx_encl_ewb_ipi_first(hw) ==
    LET r1 == __sgx_encl_ewb(hw, 1)
        r2 == __sgx_encl_ewb(hw, 2)
        rets == IF r1 # SGX_NOT_TRACKED THEN <<r1>> ELSE <<r1, r2>>
        calls == <<"sgx_alloc_va_slot", "EWB">> \o
                 (IF r1 = SGX_NOT_TRACKED
                  THEN <<"sgx_encl_ewb_cpumask", "on_each_cpu_mask", "ETRACK", "EWB">>
                  ELSE <<>>)
        ret == rets[Len(rets)]
    IN [ret |-> ret,
        calls |-> IF ret # OK THEN Append(calls, "sgx_free_va_slot") ELSE calls,
        rets |-> rets,
        va_slot |-> (ret = OK)]

\* sgx_encl_ewb(): lines 248-299.  Returns the final result, the calls it
\* made in order, what each __sgx_encl_ewb() returned, and whether the
\* version-array slot stays allocated.
sgx_encl_ewb(hw) ==
    LET r1 == __sgx_encl_ewb(hw, 1)
        r2 == __sgx_encl_ewb(hw, 2)
        r3 == __sgx_encl_ewb(hw, 3)
        rets == IF r1 # SGX_NOT_TRACKED THEN <<r1>>
                ELSE IF r2 # SGX_NOT_TRACKED THEN <<r1, r2>>
                ELSE <<r1, r2, r3>>
        calls == <<"sgx_alloc_va_slot", "EWB">> \o
                 (IF r1 = SGX_NOT_TRACKED
                  THEN <<"ETRACK", "EWB">> \o
                       (IF r2 = SGX_NOT_TRACKED
                        THEN <<"sgx_encl_ewb_cpumask", "on_each_cpu_mask", "EWB">>
                        ELSE <<>>)
                  ELSE <<>>)
        ret == rets[Len(rets)]
    IN [ret |-> ret,
        calls |-> IF ret # OK THEN Append(calls, "sgx_free_va_slot") ELSE calls,
        rets |-> rets,
        va_slot |-> (ret = OK)]

\* No sgx_encl_ewb() call.
NoEwb == [ret |-> OK, calls |-> <<>>, rets |-> <<>>, va_slot |-> FALSE]

\* The SECS part of sgx_reclaimer_write(): lines 322-341.
reclaimer_write_secs(m, e, in) ==
    IF e.secs_child_cnt # 0
    THEN [m |-> m, e |-> e, secs_ewb |-> NoEwb]
    ELSE IF SGX_ENCL_DEAD \in e.flags
    THEN [m |-> sgx_free_epc_page(sgx_drop_epc_page(m, e.secs).m, e.secs, in.eremove),
          e |-> [e EXCEPT !.secs = NoPage],
          secs_ewb |-> NoEwb]
    ELSE IF SGX_ENCL_INITIALIZED \in e.flags /\ in.secs_backing = OK
    THEN [m |-> sgx_free_epc_page(sgx_drop_epc_page(m, e.secs).m, e.secs, in.eremove),
          e |-> [e EXCEPT !.secs = NoPage],
          secs_ewb |-> sgx_encl_ewb(in.secs_ewb)]
    ELSE [m |-> m, e |-> e, secs_ewb |-> NoEwb]

\* sgx_reclaimer_write(): lines 301-345, under encl->lock.
sgx_reclaimer_write(m, e, p, in) ==
    LET ewb == IF SGX_ENCL_DEAD \in e.flags THEN NoEwb ELSE sgx_encl_ewb(in.ewb)
        e1 == [e EXCEPT !.pages = @ \ {p}, !.secs_child_cnt = @ - 1]
        s == reclaimer_write_secs(m, e1, in)
    IN [m |-> s.m, e |-> s.e, ewb |-> ewb, secs_ewb |-> s.secs_ewb]

\* ------------------------------------------------------------------ OOM
\* sgx_oom_get_ref(): lines 486-498.  No virtual EPC owner exists here.
sgx_oom_get_ref(m, e, p) ==
    IF m.desc[p] \cap {SGX_EPC_PAGE_ENCLAVE, SGX_EPC_PAGE_VERSION_ARRAY} # {}
    THEN kref_get_unless_zero(e)
    ELSE FALSE

\* Fault injection for sgx_oom_get_victim(): the list_del_init() of line 508
\* is lost, so the scan leaves every page where it is.
sgx_oom_get_victim_keeps(m, e) ==
    LET l == m.lst[UNRECLAIMABLE]
        A == {i \in 1..Len(l) : sgx_oom_get_ref(m, e, l[i])}
    IN IF A = {}
       THEN [m |-> m, e |-> e, victim |-> NoPage]
       ELSE [m |-> m, e |-> [e EXCEPT !.refcount = @ + 1],
             victim |-> l[CHOOSE i \in A : \A n \in A : i <= n]]

\* sgx_oom_get_victim(): lines 500-514, under lru->lock.
RECURSIVE sgx_oom_get_victim(_, _)
sgx_oom_get_victim(m, e) ==
    IF m.lst[UNRECLAIMABLE] = <<>>
    THEN [m |-> m, e |-> e, victim |-> NoPage]
    ELSE LET p == Head(m.lst[UNRECLAIMABLE])
             m1 == [m EXCEPT !.lst = list_del(@, p)]
         IN IF sgx_oom_get_ref(m1, e, p)
            THEN [m |-> m1, e |-> [e EXCEPT !.refcount = @ + 1], victim |-> p]
            ELSE sgx_oom_get_victim(m1, e)

\* ------------------------------------------- the enclave driver (environment)
\* A new struct sgx_encl: one reference, held by the opener.
FreshEncl ==
    [flags |-> {}, refcount |-> 1, open |-> TRUE, secs |-> NoPage,
     pages |-> {}, va |-> {}, secs_child_cnt |-> 0]

\* The pages of a set in address order.
RECURSIVE InOrder(_)
InOrder(S) ==
    IF S = {} THEN <<>>
    ELSE LET p == CHOOSE x \in S : \A y \in S : x <= y
         IN <<p>> \o InOrder(S \ {p})

\* The loop of sgx_encl_destroy() over the enclave's pages: a page whose
\* drop fails is being reclaimed and is left to the reclaimer.
RECURSIVE encl_destroy_pages(_, _, _)
encl_destroy_pages(m, e, todo) ==
    IF todo = <<>> THEN [m |-> m, e |-> e]
    ELSE LET p == Head(todo)
             r == sgx_drop_epc_page(m, p)
         IN IF r.ret # OK
            THEN encl_destroy_pages(m, e, Tail(todo))
            ELSE encl_destroy_pages(
                     sgx_free_epc_page(r.m, p, OK),
                     [e EXCEPT !.pages = @ \ {p}, !.secs_child_cnt = @ - 1],
                     Tail(todo))

\* The version-array pages of sgx_encl_destroy().
RECURSIVE encl_destroy_va(_, _, _)
encl_destroy_va(m, e, todo) ==
    IF todo = <<>> THEN [m |-> m, e |-> e]
    ELSE LET p == Head(todo)
             r == sgx_drop_epc_page(m, p)
         IN encl_destroy_va(sgx_free_epc_page(r.m, p, OK),
                            [e EXCEPT !.va = @ \ {p}], Tail(todo))

\* sgx_encl_destroy(), under encl->lock: mark the enclave dead, free its
\* pages, then the SECS page once no child is left, then the VA pages.
sgx_encl_destroy(m, e) ==
    LET a == encl_destroy_pages(m, [e EXCEPT !.flags = @ \cup {SGX_ENCL_DEAD}],
                                InOrder(e.pages))
        b == IF a.e.secs_child_cnt = 0 /\ a.e.secs # NoPage
             THEN [m |-> sgx_free_epc_page(sgx_drop_epc_page(a.m, a.e.secs).m,
                                           a.e.secs, OK),
                   e |-> [a.e EXCEPT !.secs = NoPage]]
             ELSE a
    IN encl_destroy_va(b.m, b.e, InOrder(b.e.va))

\* kref_put(&encl->refcount, sgx_encl_release): the release itself is the
\* action EnclRelease, taken once the count is zero.
kref_put(e) == [e EXCEPT !.refcount = @ - 1]

\* --------------------------------------------------------------- Init
\* page->owner of a page no call has returned yet (kzalloc, line 927).
NoOwner == "NULL"
\* The owner argument of the driver's calls: an object of the one enclave (its
\* struct sgx_encl or one of its struct sgx_encl_page).
EnclOwner == "encl"
\* The number of times EREMOVE may fail on one page during boot.
MaxRemoveFail == 1
\* The watermarks, scaled to the size of the model.
SGX_NR_LOW_PAGES == 1
SGX_NR_HIGH_PAGES == 2

\* The threads whose lock calls are followed, none of them inside a function
\* of main.c.
LockThreads == {1, 2}
IdleLk == [t \in LockThreads |-> [todo |-> <<>>, has |-> {}]]

IdleRc == [pc |-> "idle", i |-> 0]
NoWrite == [page |-> NoPage, ewb |-> NoEwb, secs_ewb |-> NoEwb]
IdleAl == [pc |-> "idle", owner |-> NoOwner, reclaim |-> FALSE, sig |-> FALSE,
           i |-> 0, ret |-> "none", page |-> NoPage]

\* sgx_setup_epc_section(): lines 909-941.  Every page of the section is put
\* on the unsanitized list and free_cnt is set to the number of pages.
sgx_setup_epc_section(s) ==
    LET ps == InOrder({p \in Pages : sgx_get_epc_section(p) = s})
    IN [page_list |-> <<>>, unsanitized_page_list |-> ps, free_cnt |-> Len(ps)]

\* The state after sgx_init(): sgx_page_cache_init() has set up the sections,
\* sgx_page_reclaimer_init() has started ksgxswapd and set up the global LRU.
Init ==
    /\ lst = [k \in ListHeads |->
                IF k[1] = "unsanitized_page_list"
                THEN sgx_setup_epc_section(k[2]).unsanitized_page_list
                ELSE IF k[1] = "page_list"
                THEN sgx_setup_epc_section(k[2]).page_list
                ELSE <<>>]
    /\ free_cnt = [s \in Sections |-> sgx_setup_epc_section(s).free_cnt]
    /\ desc = [p \in Pages |-> {}]
    /\ owner = [p \in Pages |-> NoOwner]
    /\ hw_fail \in [Pages -> 0..MaxRemoveFail]
    /\ encl = FreshEncl
    /\ held = {}
    /\ swapd = [pc |-> "sanitize", pass |-> 1, i |-> 1]
    /\ al = IdleAl
    /\ rc = [r \in Reclaimers |-> IdleRc]
    /\ wr = [r \in Reclaimers |-> NoWrite]
    /\ lk = IdleLk

\* ------------------------------------------------- ksgxswapd: sanitizer
\* One iteration of the loop of sgx_sanitize_section() (lines 628-646) on
\* section swapd.i, or its return when the unsanitized list is empty.  The
\* pages whose EREMOVE failed stay on the local secs_list (line 641), which
\* is not spliced back when the function returns.
sgx_sanitize_section ==
    /\ swapd.pc = "sanitize"
    /\ LET s == swapd.i IN
       IF lst[UNSANITIZED(s)] # <<>>
       THEN LET p == Head(lst[UNSANITIZED(s)]) IN
            /\ IF hw_fail[p] = 0
               THEN lst' = list_move(lst, p, PAGE_LIST(s))
               ELSE lst' = list_move_tail(lst, p, SECS_LIST)
            /\ hw_fail' = [hw_fail EXCEPT ![p] = IF @ > 0 THEN @ - 1 ELSE @]
            /\ UNCHANGED swapd
       ELSE /\ swapd' = IF s + 1 \in Sections
                        THEN [swapd EXCEPT !.i = s + 1]
                        ELSE IF swapd.pass = 1
                        THEN [swapd EXCEPT !.pass = 2, !.i = 1]
                        ELSE [swapd EXCEPT !.pc = "wait"]
            /\ UNCHANGED <<lst, hw_fail>>
    /\ UNCHANGED <<lk, owner, free_cnt, desc, encl, held, al, rc, wr>>

\* ---------------------------------------------------------- the reclaimer
\* Both callers in main.c pass ignore_age = false (lines 708 and 822).
ignore_age == FALSE

\* The start of sgx_reclaim_epc_pages(): lines 407-424.  With nothing
\* isolated the function goes to out with i = 0.
ReclaimStart(r, nr_to_scan) ==
    LET x == sgx_isolate_epc_pages(Mem, encl, nr_to_scan, r) IN
    /\ Commit(x.m)
    /\ encl' = x.e
    /\ rc' = [rc EXCEPT ![r] = IF x.m.lst[ISO(r)] = <<>>
                               THEN [pc |-> "write", i |-> 0]
                               ELSE [pc |-> "age", i |-> 0]]

\* Fault injection for the skip path: list_move() for list_move_tail() at
\* line 449.
reclaim_skip_to_head(m, p) ==
    [m EXCEPT !.desc[p] = @ \ {SGX_EPC_PAGE_RECLAIM_IN_PROGRESS},
              !.lst = [list_del(@, p) EXCEPT ![RECLAIMABLE] = <<p>> \o @]]

\* Fault injection for the skip path: line 448 is lost.
reclaim_skip_keeps_flag(m, p) ==
    [m EXCEPT !.lst = list_move_tail(@, p, RECLAIMABLE)]

\* The skip path: lines 445-450, under lru->lock.
reclaim_skip(m, p) ==
    [m EXCEPT !.desc[p] = @ \ {SGX_EPC_PAGE_RECLAIM_IN_PROGRESS},
              !.lst = list_move_tail(@, p, RECLAIMABLE)]

\* Fault injection for the first loop: the test of i against
\* SGX_MAX_NR_TO_RECLAIM (line 429) is lost.
reclaim_skips_no_cap(e, i, young, backing) ==
    \/ (~ignore_age /\ ~sgx_reclaimer_age(e, young))
    \/ backing # OK

\* Whether the first loop skips the page: lines 429-437.
reclaim_skips(e, i, young, backing) ==
    \/ i = SGX_MAX_NR_TO_RECLAIM
    \/ (~ignore_age /\ ~sgx_reclaimer_age(e, young))
    \/ backing # OK

\* One iteration of the first loop of sgx_reclaim_epc_pages(): lines 426-453.
\* The accepted pages stay at the front of iso, so the page looked at is the
\* one after the i accepted ones.  After the last page come the second loop
\* (lines 455-456: sgx_reclaimer_block() of every page left, which changes
\* page tables and the hardware's state of the page only) and i = 0.
ReclaimAge(r) ==
    /\ rc[r].pc = "age"
    /\ IF rc[r].i >= Len(lst[ISO(r)])
       THEN /\ rc' = [rc EXCEPT ![r] = [pc |-> "write", i |-> 0]]
            /\ UNCHANGED <<lst, free_cnt, desc, encl>>
       ELSE LET p == lst[ISO(r)][rc[r].i + 1] IN
            \E young \in BOOLEAN, backing \in {OK, ENOMEM} :
               IF reclaim_skips(encl, rc[r].i, young, backing)
               THEN /\ Commit(reclaim_skip(Mem, p))
                    /\ encl' = kref_put(encl)
                    /\ UNCHANGED rc
               ELSE /\ rc' = [rc EXCEPT ![r].i = @ + 1]
                    /\ UNCHANGED <<lst, free_cnt, desc, encl>>
    /\ UNCHANGED <<lk, owner, hw_fail, held, swapd, al, wr>>

\* The inputs sgx_reclaimer_write() reads for enclave e.
WriteInputsOf(e) ==
    LET dead == SGX_ENCL_DEAD \in e.flags
        last == e.secs_child_cnt = 1
        secs == last /\ ~dead /\ SGX_ENCL_INITIALIZED \in e.flags
        none == {[nt |-> 0, final |-> OK]}
    IN [ewb : IF dead THEN none ELSE EwbHardware,
        eremove : IF last THEN {OK, SGX_ERROR} ELSE {OK},
        secs_backing : IF secs THEN {OK, ENOMEM} ELSE {OK},
        secs_ewb : IF secs THEN EwbHardware ELSE none]

\* Fault injection for lines 461-465: line 465 is lost.
reclaim_write_keeps_flags(m, e, p, in) ==
    LET w == sgx_reclaimer_write(m, e, p, in) IN
    [m |-> w.m, e |-> kref_put(w.e), ewb |-> w.ewb, secs_ewb |-> w.secs_ewb]

\* Fault injection for lines 461-465: the kref_put() of line 464 is lost.
reclaim_write_no_put(m, e, p, in) ==
    LET w == sgx_reclaimer_write(m, e, p, in) IN
    [m |-> [w.m EXCEPT !.desc[p] = @ \ SGX_EPC_PAGE_RECLAIM_FLAGS],
     e |-> w.e, ewb |-> w.ewb, secs_ewb |-> w.secs_ewb]

\* Lines 461-465: write the page back, put the backing, put the enclave
\* reference and clear the reclaim flags.
reclaim_write(m, e, p, in) ==
    LET w == sgx_reclaimer_write(m, e, p, in) IN
    [m |-> [w.m EXCEPT !.desc[p] = @ \ SGX_EPC_PAGE_RECLAIM_FLAGS],
     e |-> kref_put(w.e), ewb |-> w.ewb, secs_ewb |-> w.secs_ewb]

\* Fault injection for lines 474-478: list_add_tail() for list_move_tail().
reclaim_free_no_unlink(m, p) ==
    LET s == sgx_get_epc_section(p) IN
    [m EXCEPT !.lst = list_add_tail(@, p, PAGE_LIST(s)),
              !.free_cnt[s] = @ + 1]

\* Lines 474-478, under section->lock.
reclaim_free(m, p) ==
    LET s == sgx_get_epc_section(p) IN
    [m EXCEPT !.lst = list_move_tail(@, p, PAGE_LIST(s)),
              !.free_cnt[s] = @ + 1]

\* The third loop of sgx_reclaim_epc_pages(), first half: lines 459-465.
ReclaimWrite(r) ==
    /\ rc[r].pc = "write"
    /\ lst[ISO(r)] # <<>>
    /\ LET p == Head(lst[ISO(r)]) IN
       \E in \in WriteInputsOf(encl) :
          LET w == reclaim_write(Mem, encl, p, in) IN
          /\ Commit(w.m)
          /\ encl' = w.e
          /\ wr' = [wr EXCEPT ![r] = [page |-> p, ewb |-> w.ewb,
                                      secs_ewb |-> w.secs_ewb]]
          /\ rc' = [rc EXCEPT ![r] = [pc |-> "free", i |-> @.i + 1]]
    /\ UNCHANGED <<lk, owner, hw_fail, held, swapd, al>>

\* The third loop, second half: lines 474-478.
ReclaimFree(r) ==
    /\ rc[r].pc = "free"
    /\ Commit(reclaim_free(Mem, Head(lst[ISO(r)])))
    /\ rc' = [rc EXCEPT ![r].pc = "write"]
    /\ wr' = [wr EXCEPT ![r] = NoWrite]
    /\ UNCHANGED <<lk, owner, hw_fail, encl, held, swapd, al>>

\* Lines 481-483: sgx_reclaim_epc_pages() is about to return i.
ReclaimOut(r) == rc[r].pc = "write" /\ lst[ISO(r)] = <<>>

\* ------------------------------------------------------ ksgxswapd: loop
\* wait_event_freezable(): lines 703-705.  The condition is looked at once;
\* when it is false the thread sleeps until wake_up(), which brings it to
\* "woken": it looks at the condition again.
SwapdWait ==
    /\ swapd.pc \in {"wait", "woken"}
    /\ swapd' = [swapd EXCEPT !.pc = IF sgx_should_reclaim(Mem, SGX_NR_HIGH_PAGES)
                                     THEN "run" ELSE "sleep"]
    /\ UNCHANGED <<lk, owner, lst, free_cnt, desc, hw_fail, encl, held, al, rc, wr>>

\* Lines 707-708.
SwapdRun ==
    /\ swapd.pc = "run"
    /\ IF sgx_should_reclaim(Mem, SGX_NR_HIGH_PAGES)
       THEN /\ ReclaimStart(1, SGX_NR_TO_SCAN)
            /\ swapd' = [swapd EXCEPT !.pc = "reclaim"]
       ELSE /\ swapd' = [swapd EXCEPT !.pc = "wait"]
            /\ UNCHANGED <<lst, free_cnt, desc, encl, rc>>
    /\ UNCHANGED <<lk, owner, hw_fail, held, al, wr>>

\* sgx_reclaim_epc_pages() returns to ksgxswapd.
SwapdReclaimDone ==
    /\ swapd.pc = "reclaim"
    /\ ReclaimOut(1)
    /\ rc' = [rc EXCEPT ![1] = IdleRc]
    /\ swapd' = [swapd EXCEPT !.pc = "wait"]
    /\ UNCHANGED <<lk, owner, lst, free_cnt, desc, hw_fail, encl, held, al, wr>>

\* ------------------------------------------------- sgx_alloc_epc_page()
\* What the enclave driver may allocate a page for.
MayAlloc(kind) ==
    /\ encl.open
    /\ SGX_ENCL_DEAD \notin encl.flags
    /\ IF kind = "secs" THEN encl.secs = NoPage
       ELSE SGX_ENCL_CREATED \in encl.flags /\ (kind = "page" => encl.secs # NoPage)

Owners == {"secs", "page", "va"}

\* The call, with its reclaim argument.
AllocCall ==
    /\ al.pc = "idle"
    /\ held = {}
    /\ \E kind \in Owners : MayAlloc(kind)
    /\ \E reclaim \in BOOLEAN :
          al' = [IdleAl EXCEPT !.pc = "walk", !.owner = EnclOwner,
                               !.reclaim = reclaim, !.i = 1]
    /\ UNCHANGED <<lk, owner, lst, free_cnt, desc, hw_fail, encl, held, swapd, rc, wr>>

\* Line 803: entry->owner = owner.
bind_owner(o, page, new) == [o EXCEPT ![page] = new]

\* __sgx_alloc_epc_page(), one section of its loop (lines 759-767), and
\* lines 802-805 when it found a page.
AllocWalk ==
    /\ al.pc = "walk"
    /\ LET x == __sgx_alloc_epc_page_from_section(Mem, al.i) IN
       IF x.page # NoPage
       THEN /\ Commit(x.m)
            /\ owner' = bind_owner(owner, x.page, al.owner)
            /\ al' = [al EXCEPT !.pc = "out", !.ret = "page", !.page = x.page]
       ELSE /\ al' = IF al.i + 1 \in Sections
                     THEN [al EXCEPT !.i = @ + 1]
                     ELSE [al EXCEPT !.pc = "miss"]
            /\ UNCHANGED <<lst, free_cnt, desc, owner>>
    /\ UNCHANGED <<lk, hw_fail, encl, held, swapd, rc, wr>>

\* Fault injection for lines 807-822: the signal is looked at first.
alloc_miss_signal_first(m, reclaim, sig) ==
    IF sig THEN ERESTARTSYS
    ELSE IF ~sgx_can_reclaim(m) THEN ENOMEM
    ELSE IF ~reclaim THEN EBUSY
    ELSE "reclaim"

\* What sgx_alloc_epc_page() does when no section had a free page:
\* lines 807-822.  sig is signal_pending(current).
alloc_miss(m, reclaim, sig) ==
    IF ~sgx_can_reclaim(m) THEN ENOMEM
    ELSE IF ~reclaim THEN EBUSY
    ELSE IF sig THEN ERESTARTSYS
    ELSE "reclaim"

AllocMiss ==
    /\ al.pc = "miss"
    /\ \E sig \in BOOLEAN :
          LET d == alloc_miss(Mem, al.reclaim, sig) IN
          IF d = "reclaim"
          THEN /\ ReclaimStart(2, SGX_NR_TO_SCAN)
               /\ al' = [al EXCEPT !.pc = "reclaim", !.sig = sig]
          ELSE /\ al' = [al EXCEPT !.pc = "out", !.ret = d, !.sig = sig]
               /\ UNCHANGED <<lst, free_cnt, desc, encl, rc>>
    /\ UNCHANGED <<lk, owner, hw_fail, held, swapd, wr>>

\* sgx_reclaim_epc_pages() returns and the loop of line 800 goes round.
AllocReclaimDone ==
    /\ al.pc = "reclaim"
    /\ ReclaimOut(2)
    /\ rc' = [rc EXCEPT ![2] = IdleRc]
    /\ al' = [al EXCEPT !.pc = "walk", !.i = 1, !.sig = FALSE]
    /\ UNCHANGED <<lk, owner, lst, free_cnt, desc, hw_fail, encl, held, swapd, wr>>

\* Lines 834-837: wake ksgxswapd, return the entry.
AllocReturn ==
    /\ al.pc = "out"
    /\ swapd' = IF sgx_should_reclaim(Mem, SGX_NR_LOW_PAGES) /\ swapd.pc = "sleep"
                THEN [swapd EXCEPT !.pc = "woken"]
                ELSE swapd
    /\ held' = IF al.ret = "page" THEN held \cup {al.page} ELSE held
    /\ al' = IdleAl
    /\ UNCHANGED <<lk, owner, lst, free_cnt, desc, hw_fail, encl, rc, wr>>

\* ------------------------------------------------------- sgx_epc_oom()
\* Lines 605-610: pick the victim under lru->lock.
OomStart ==
    /\ al.pc = "idle"
    /\ LET x == sgx_oom_get_victim(Mem, encl) IN
       /\ Commit(x.m)
       /\ encl' = x.e
       /\ al' = IF x.victim = NoPage THEN IdleAl
                ELSE [IdleAl EXCEPT !.pc = "oom_mark", !.page = x.victim]
    /\ UNCHANGED <<lk, owner, hw_fail, held, swapd, rc, wr>>

\* Fault injection for lines 553-555: the test reads the flags after the
\* atomic_fetch_or() instead of those it returned.
oom_encl_skips_new_flags(encl_flags) ==
    \/ (encl_flags \cup {SGX_ENCL_OOM}) \cap SGX_ENCL_DEAD_OR_OOM # {}
    \/ SGX_ENCL_CREATED \notin encl_flags

\* Lines 553-555: whether sgx_oom_encl() goes to out; encl_flags is what
\* atomic_fetch_or() returned.
oom_encl_skips(encl_flags) ==
    \/ encl_flags \cap SGX_ENCL_DEAD_OR_OOM # {}
    \/ SGX_ENCL_CREATED \notin encl_flags

\* sgx_oom_encl(), lines 549-555: set SGX_ENCL_OOM under encl->lock, look at
\* the old flags.
OomMark ==
    /\ al.pc = "oom_mark"
    /\ encl' = [encl EXCEPT !.flags = @ \cup {SGX_ENCL_OOM}]
    /\ al' = [al EXCEPT !.pc = IF oom_encl_skips(encl.flags)
                               THEN "oom_put" ELSE "oom_zap"]
    /\ UNCHANGED <<lk, owner, lst, free_cnt, desc, hw_fail, held, swapd, rc, wr>>

\* Lines 557-580: zap the PTEs of every mapping of the enclave over
\* [base, base + size).  Page tables are outside this model.
OomZap ==
    /\ al.pc = "oom_zap"
    /\ al' = [al EXCEPT !.pc = "oom_destroy"]
    /\ UNCHANGED <<lk, owner, lst, free_cnt, desc, hw_fail, encl, held, swapd, rc, wr>>

\* Lines 582-584: sgx_encl_destroy() under encl->lock.
OomDestroy ==
    /\ al.pc = "oom_destroy"
    /\ LET x == sgx_encl_destroy(Mem, encl) IN
       /\ Commit(x.m)
       /\ encl' = x.e
    /\ al' = [al EXCEPT !.pc = "oom_put"]
    /\ UNCHANGED <<lk, owner, hw_fail, held, swapd, rc, wr>>

\* Line 587.
OomPut ==
    /\ al.pc = "oom_put"
    /\ encl' = kref_put(encl)
    /\ al' = IdleAl
    /\ UNCHANGED <<lk, owner, lst, free_cnt, desc, hw_fail, held, swapd, rc, wr>>

\* ------------------------------------------- the enclave driver: actions
\* The driver binds the page it allocated to the enclave and records it:
\* the SECS and the version-array pages are unreclaimable.
EnclAdd(p) ==
    /\ p \in held
    /\ owner[p] = EnclOwner
    /\ \E k \in Owners :
       /\ MayAlloc(k)
       /\ LET f == IF k = "page"
                   THEN {SGX_EPC_PAGE_ENCLAVE, SGX_EPC_PAGE_RECLAIMABLE}
                   ELSE IF k = "secs" THEN {SGX_EPC_PAGE_ENCLAVE}
                   ELSE {SGX_EPC_PAGE_VERSION_ARRAY}
          IN /\ Commit(sgx_record_epc_page(Mem, p, f))
             /\ encl' = IF k = "page"
                        THEN [encl EXCEPT !.pages = @ \cup {p},
                                          !.secs_child_cnt = @ + 1]
                        ELSE IF k = "secs"
                        THEN [encl EXCEPT !.secs = p,
                                          !.flags = @ \cup {SGX_ENCL_CREATED}]
                        ELSE [encl EXCEPT !.va = @ \cup {p}]
    /\ held' = held \ {p}
    /\ UNCHANGED <<lk, owner, hw_fail, swapd, al, rc, wr>>

\* The driver frees a page it did not bind (an error path).
FreeHeld(p) ==
    /\ p \in held
    /\ \E eremove \in {OK, SGX_ERROR} : Commit(sgx_free_epc_page(Mem, p, eremove))
    /\ held' = held \ {p}
    /\ UNCHANGED <<lk, owner, hw_fail, encl, swapd, al, rc, wr>>

\* EINIT.
EnclInit ==
    /\ encl.open
    /\ SGX_ENCL_CREATED \in encl.flags
    /\ encl.flags \cap {SGX_ENCL_INITIALIZED, SGX_ENCL_DEAD} = {}
    /\ encl' = [encl EXCEPT !.flags = @ \cup {SGX_ENCL_INITIALIZED}]
    /\ UNCHANGED <<lk, owner, lst, free_cnt, desc, hw_fail, held, swapd, al, rc, wr>>

\* The driver destroys the enclave (an ioctl error path).
EnclDestroy ==
    /\ encl.open
    /\ SGX_ENCL_CREATED \in encl.flags
    /\ SGX_ENCL_DEAD \notin encl.flags
    /\ LET x == sgx_encl_destroy(Mem, encl) IN
       /\ Commit(x.m)
       /\ encl' = x.e
    /\ UNCHANGED <<lk, owner, hw_fail, held, swapd, al, rc, wr>>

\* The opener closes the enclave: kref_put().
EnclClose ==
    /\ encl.open
    /\ encl' = [kref_put(encl) EXCEPT !.open = FALSE]
    /\ UNCHANGED <<lk, owner, lst, free_cnt, desc, hw_fail, held, swapd, al, rc, wr>>

\* sgx_encl_release(), when the last reference is gone: destroy the enclave
\* and free it.  The next enclave uses the same struct.
EnclRelease ==
    /\ ~encl.open
    /\ encl.refcount = 0
    /\ LET x == sgx_encl_destroy(Mem, encl) IN
       /\ Commit(x.m)
    /\ encl' = FreshEncl
    /\ UNCHANGED <<lk, owner, hw_fail, held, swapd, al, rc, wr>>

\* ---------------------------------------------------------------- Next
Next ==
    \/ sgx_sanitize_section
    \/ SwapdWait
    \/ SwapdRun
    \/ SwapdReclaimDone
    \/ \E r \in Reclaimers : ReclaimAge(r)
    \/ \E r \in Reclaimers : ReclaimWrite(r)
    \/ \E r \in Reclaimers : ReclaimFree(r)
    \/ AllocCall
    \/ AllocWalk
    \/ AllocMiss
    \/ AllocReclaimDone
    \/ AllocReturn
    \/ OomStart
    \/ OomMark
    \/ OomZap
    \/ OomDestroy
    \/ OomPut
    \/ \E p \in Pages : EnclAdd(p)
    \/ \E p \in Pages : FreeHeld(p)
    \/ EnclInit
    \/ EnclDestroy
    \/ EnclClose
    \/ EnclRelease

Spec == Init /\ [][Next]_vars

\* ============================================================ properties
OnList(p, k) == p \in Range(lst[k])
OnListNext(p, k) == p \in Range(lst'[k])
Occurrences(p, k) == Cardinality({i \in DOMAIN lst[k] : lst[k][i] = p})
FreeLists == {PAGE_LIST(s) : s \in Sections}
LruLists == {RECLAIMABLE, UNRECLAIMABLE}
IsoLists == {ISO(r) : r \in Reclaimers}
\* The lists a page can be found on by the rest of the kernel.
SharedLists == FreeLists \cup {UNSANITIZED(s) : s \in Sections} \cup LruLists \cup IsoLists
InProgress(p) == SGX_EPC_PAGE_RECLAIM_IN_PROGRESS \in desc[p]
Reclaimable(p) == SGX_EPC_PAGE_RECLAIMABLE \in desc[p]

\* C1: for every section, free_cnt equals the number of pages linked on the
\* section's page_list, from sgx_setup_epc_section() on.
C1_FreeCntIsLen ==
    \A s \in Sections : free_cnt[s] = Len(lst[PAGE_LIST(s)])

\* C2: no page is linked on more than one of the section free lists, the
\* unsanitized lists, the LRU lists and the reclaimers' iso lists, nor twice
\* on one of them.
C2_SingleResidence ==
    \A p \in Pages :
       /\ Cardinality({k \in SharedLists : OnList(p, k)}) <= 1
       /\ \A k \in SharedLists : Occurrences(p, k) <= 1

\* A reclaimer is about to move a page from its iso list to a free list while
\* another page is on an LRU list and a third is free.
C2_Witness ==
    \E r \in Reclaimers :
       /\ rc[r].pc = "free"
       /\ \E k \in LruLists : lst[k] # <<>>
       /\ \E s \in Sections : lst[PAGE_LIST(s)] # <<>>

\* The steps in which sgx_drop_epc_page() is called on the enclave's pages.
DestroyStep == EnclDestroy \/ OomDestroy \/ EnclRelease

\* What one destroy step does to page p of the enclave: an isolated page
\* (drop returns -EBUSY) is left as it is; any other page is unlinked, loses
\* its flags and goes to its section's free list.
C3_DropOutcome(p) ==
    IF Reclaimable(p) /\ InProgress(p)
    THEN /\ \A k \in ListHeads : OnListNext(p, k) = OnList(p, k)
         /\ desc'[p] = desc[p]
         /\ \E r \in Reclaimers : OnListNext(p, ISO(r))
    ELSE /\ \A k \in LruLists \cup IsoLists : ~OnListNext(p, k)
         /\ desc'[p] \cap SGX_EPC_PAGE_RECLAIM_FLAGS = {}
         /\ OnListNext(p, PAGE_LIST(sgx_get_epc_section(p)))

\* A page on an iso list is on no free list, and until the reclaimer has
\* written it back it carries both flags, which a successful drop clears.
C3_IsoOwned ==
    \A r \in Reclaimers : \A i \in DOMAIN lst[ISO(r)] :
       LET p == lst[ISO(r)][i] IN
       /\ \A k \in FreeLists : ~OnList(p, k)
       /\ (rc[r].pc = "free" /\ i = 1) \/ (Reclaimable(p) /\ InProgress(p))

\* C3: drop and isolate of one page exclude each other: a drop of an
\* isolated page changes nothing and leaves the page to the reclaimer, a
\* drop of any other page unlinks it, and no reclaimer ever holds a page
\* that was dropped with success or that is on a free list.
C3_DropVsIsolate ==
    [][/\ C3_IsoOwned'
       /\ DestroyStep => \A p \in encl.pages : C3_DropOutcome(p)]_vars

\* The enclave was destroyed while a reclaimer held one of its pages: the
\* page is still the enclave's and still on the iso list.
C3_Witness ==
    /\ SGX_ENCL_DEAD \in encl.flags
    /\ \E r \in Reclaimers : \E p \in encl.pages :
          OnList(p, ISO(r)) /\ InProgress(p)

\* C4: a page whose EWB finally failed is not moved to a section free list.
C4_FailedPageStays ==
    [][\A r \in Reclaimers :
          (rc[r].pc = "free" /\ wr[r].ewb.ret # OK)
          => ~OnListNext(wr[r].page, PAGE_LIST(sgx_get_epc_section(wr[r].page)))]_vars

\* C5: once both sanitizer passes are over, no page is left on an unsanitized
\* list or parked on the sanitizer's secs_list.
C5_AllSanitized ==
    swapd.pc # "sanitize"
    => /\ lst[SECS_LIST] = <<>>
       /\ \A s \in Sections : lst[UNSANITIZED(s)] = <<>>

\* C6: on a miss sgx_alloc_epc_page() returns -ENOMEM when nothing is
\* reclaimable, else -EBUSY when reclaim is false, else -ERESTARTSYS when a
\* signal is pending, and only else runs the reclaimer; a call that returns
\* an error isolates nothing, and the caller's reclaimer runs only for a
\* call with reclaim true.
C6_MissOrder ==
    [][/\ (al.pc = "miss" /\ al'.pc # "miss")
          => LET can == lst[RECLAIMABLE] # <<>> IN
             /\ ~can => (al'.pc = "out" /\ al'.ret = ENOMEM)
             /\ (can /\ ~al.reclaim) => (al'.pc = "out" /\ al'.ret = EBUSY)
             /\ (can /\ al.reclaim /\ al'.sig)
                => (al'.pc = "out" /\ al'.ret = ERESTARTSYS)
             /\ (can /\ al.reclaim /\ ~al'.sig)
                => (al'.pc = "reclaim" /\ rc'[2].pc # "idle")
             /\ al'.pc = "out"
                => (lst' = lst /\ desc' = desc /\ rc' = rc /\ encl' = encl)
       /\ rc'[2].pc # "idle" => (al'.pc = "reclaim" /\ al'.reclaim)]_vars

\* A call with reclaim true found the free lists empty, a page reclaimable
\* and a signal pending, and returns -ERESTARTSYS.
C6_Witness ==
    /\ al.pc = "out"
    /\ al.ret = ERESTARTSYS
    /\ al.reclaim /\ al.sig
    /\ lst[RECLAIMABLE] # <<>>
    /\ \A s \in Sections : lst[PAGE_LIST(s)] = <<>>

\* C7: a page on the reclaimable list has RECLAIMABLE set and is on no free
\* list; a page on the unreclaimable list has RECLAIMABLE clear.
C7_FlagListAgreement ==
    \A p \in Pages :
       /\ OnList(p, RECLAIMABLE)
          => (Reclaimable(p) /\ \A k \in FreeLists : ~OnList(p, k))
       /\ OnList(p, UNRECLAIMABLE) => ~Reclaimable(p)

\* A reclaimer in its first loop has put a page back on the reclaimable list
\* and still holds another; the unreclaimable list holds a page too.
C7_Witness ==
    /\ lst[RECLAIMABLE] # <<>>
    /\ lst[UNRECLAIMABLE] # <<>>
    /\ \E r \in Reclaimers : rc[r].pc = "age" /\ lst[ISO(r)] # <<>>

\* A page with RECLAIM_IN_PROGRESS has RECLAIMABLE and is on an iso list and
\* on no other list.
C8_HandoffState ==
    \A p \in Pages :
       InProgress(p)
       => /\ Reclaimable(p)
          /\ \E r \in Reclaimers : OnList(p, ISO(r))
          /\ \A k \in ListHeads \ IsoLists : ~OnList(p, k)

\* C8: a page with RECLAIM_IN_PROGRESS has RECLAIMABLE and is on an iso list
\* only; the flag is set only by the isolation of a page of the reclaimable
\* list by a reclaimer that starts a pass, and it is clear when the page
\* comes back to an LRU list.
C8_Handoff ==
    [][/\ C8_HandoffState'
       /\ \A p \in Pages :
             /\ (~InProgress(p) /\ SGX_EPC_PAGE_RECLAIM_IN_PROGRESS \in desc'[p])
                => /\ OnList(p, RECLAIMABLE)
                   /\ \E r \in Reclaimers :
                         /\ rc[r].pc = "idle" /\ rc'[r].pc # "idle"
                         /\ OnListNext(p, ISO(r))
             /\ \A k \in LruLists :
                   (~OnList(p, k) /\ OnListNext(p, k))
                   => SGX_EPC_PAGE_RECLAIM_IN_PROGRESS \notin desc'[p]]_vars

\* Both reclaimers hold an isolated page at once.
C8_Witness ==
    \A r \in Reclaimers :
       \E p \in Pages : OnList(p, ISO(r)) /\ InProgress(p)

\* C9: a page on a section free list has every reclaim flag clear.
C9_FreeListFlagsClear ==
    \A s \in Sections : \A p \in Range(lst[PAGE_LIST(s)]) :
       desc[p] \cap SGX_EPC_PAGE_RECLAIM_FLAGS = {}

\* A reclaimer has written the SECS page back and freed it, and has put a
\* page of its pass on a free list.
C9_Witness ==
    \E r \in Reclaimers :
       /\ rc[r].pc = "write"
       /\ rc[r].i >= 1
       /\ encl.secs = NoPage /\ SGX_ENCL_INITIALIZED \in encl.flags
       /\ \A s \in Sections : lst[PAGE_LIST(s)] # <<>>

\* The hardware calls of one sgx_encl_ewb(), without the slot bookkeeping.
EwbOps(w) == SelectSeq(w.calls, LAMBDA c : c \notin {"sgx_alloc_va_slot", "sgx_free_va_slot"})

\* The escalation of one sgx_encl_ewb(): EWB; ETRACK and EWB if and only if
\* the first EWB returned SGX_NOT_TRACKED; cpumask, IPI and EWB if and only
\* if the second did too.
C10_Escalation(w) ==
    LET ops == EwbOps(w)
        first == <<"EWB">>
        second == <<"EWB", "ETRACK", "EWB">>
        third == second \o <<"sgx_encl_ewb_cpumask", "on_each_cpu_mask", "EWB">>
    IN \/ w.calls = <<>>
       \/ /\ ops \in {first, second, third}
          /\ Len(w.rets) = Cardinality({i \in DOMAIN ops : ops[i] = "EWB"})
          /\ (ops # first) = (w.rets[1] = SGX_NOT_TRACKED)
          /\ (ops = third) = (Len(w.rets) >= 2 /\ w.rets[2] = SGX_NOT_TRACKED)
          /\ w.ret = w.rets[Len(w.rets)]

\* C10: every sgx_encl_ewb() of a reclaimer, for the page and for the SECS
\* page, follows the order EWB, ETRACK, EWB, cpumask, IPI, EWB, each stage
\* entered only when the EWB before it returned SGX_NOT_TRACKED.
C10_NotTrackedOrder ==
    \A r \in Reclaimers : C10_Escalation(wr[r].ewb) /\ C10_Escalation(wr[r].secs_ewb)

\* A write-back went through the whole escalation, three EWBs.
C10_Witness ==
    \E r \in Reclaimers : rc[r].pc = "free" /\ Len(wr[r].ewb.rets) = 3

\* The steps of the thread that is inside sgx_alloc_epc_page(): the loop of
\* lines 800-823 and the reclaim pass it runs itself.
AllocThread ==
    \/ AllocWalk
    \/ AllocMiss
    \/ AllocReclaimDone
    \/ AllocReturn
    \/ ReclaimAge(2)
    \/ ReclaimWrite(2)
    \/ ReclaimFree(2)

\* The scheduler runs a runnable thread: the caller of sgx_alloc_epc_page()
\* takes its next step when it has one.
SpecFair == Init /\ [][Next]_vars /\ WF_vars(AllocThread)

\* C11: under fair scheduling every call of sgx_alloc_epc_page() with reclaim
\* true returns, whatever the young bits and sgx_encl_get_backing() answer.
C11_AllocReturns ==
    (al.pc \in {"walk", "miss", "reclaim"} /\ al.reclaim) ~> (al.pc = "out")

\* The owner reference of a page on the unreclaimable list can be acquired.
Acquirable(p) ==
    /\ desc[p] \cap {SGX_EPC_PAGE_ENCLAVE, SGX_EPC_PAGE_VERSION_ARRAY} # {}
    /\ encl.refcount > 0

OomPcs == {"oom_mark", "oom_zap", "oom_destroy", "oom_put"}

\* C12: sgx_epc_oom() finds a victim (and returns true, after sgx_oom_encl())
\* exactly when the unreclaimable list holds a page whose owner reference can
\* be acquired; sgx_oom_encl() sets SGX_ENCL_OOM, then zaps, then destroys,
\* and with an enclave that was dead, OOM or not created it does neither.
C12_OomOrder ==
    [][/\ OomStart
          => /\ (al'.pc = "oom_mark")
                = (\E p \in Range(lst[UNRECLAIMABLE]) : Acquirable(p))
             /\ al'.pc \in {"oom_mark", "idle"}
       /\ (al.pc = "oom_mark" /\ al'.pc # "oom_mark")
          => /\ SGX_ENCL_OOM \in encl'.flags
             /\ al'.pc = IF \/ encl.flags \cap {SGX_ENCL_DEAD, SGX_ENCL_OOM} # {}
                            \/ SGX_ENCL_CREATED \notin encl.flags
                         THEN "oom_put" ELSE "oom_zap"
       /\ (al.pc = "oom_zap" /\ al'.pc # "oom_zap")
          => (al'.pc = "oom_destroy" /\ SGX_ENCL_OOM \in encl.flags)
       /\ (al.pc = "oom_destroy" /\ al'.pc # "oom_destroy")
          => (al'.pc = "oom_put" /\ SGX_ENCL_DEAD \in encl'.flags)
       /\ (al.pc \in {"oom_mark", "oom_zap", "oom_put"} /\ al'.pc # al.pc)
          => (lst' = lst /\ desc' = desc /\ free_cnt' = free_cnt
              /\ (SGX_ENCL_DEAD \in encl'.flags) = (SGX_ENCL_DEAD \in encl.flags))
       /\ (al.pc \in OomPcs /\ al'.pc \notin OomPcs)
          => (al.pc = "oom_put" /\ al'.pc = "idle")]_vars

\* sgx_oom_encl() has marked, zapped and destroyed the enclave of its victim
\* and is about to put its reference.
C12_Witness ==
    /\ al.pc = "oom_put"
    /\ {SGX_ENCL_OOM, SGX_ENCL_DEAD, SGX_ENCL_CREATED} \subseteq encl.flags
    /\ encl.pages = {}

\* C13: a successful sgx_alloc_epc_page() starts its walk at the first
\* section, passes a section only when its page_list is empty, takes the head
\* of the page_list of the section it stops at, decrements that section's
\* free_cnt by one, leaves the other sections alone, stores the caller's
\* owner in the page and returns a page that is on no list.
C13_AllocTakesHead ==
    [][/\ (al.pc # "walk" /\ al'.pc = "walk") => al'.i = 1
       /\ (al.pc = "walk" /\ al' # al)
          => LET s == al.i IN
             IF lst[PAGE_LIST(s)] = <<>>
             THEN /\ al'.pc # "out"
                  /\ al'.pc = "walk" => al'.i = s + 1
                  /\ al'.pc = "miss" => s + 1 \notin Sections
                  /\ lst' = lst /\ free_cnt' = free_cnt /\ owner' = owner
             ELSE /\ al'.pc = "out" /\ al'.ret = "page"
                  /\ al'.page = Head(lst[PAGE_LIST(s)])
                  /\ lst'[PAGE_LIST(s)] = Tail(lst[PAGE_LIST(s)])
                  /\ free_cnt'[s] = free_cnt[s] - 1
                  /\ \A t \in Sections \ {s} :
                        /\ lst'[PAGE_LIST(t)] = lst[PAGE_LIST(t)]
                        /\ free_cnt'[t] = free_cnt[t]
                  /\ owner'[al'.page] = al.owner
                  /\ \A q \in Pages \ {al'.page} : owner'[q] = owner[q]
                  /\ \A k \in ListHeads : ~OnListNext(al'.page, k)]_vars

\* The call found every free list empty and ran a reclaim pass itself; the
\* pass is over and has freed a page of the second section, which the walk
\* that follows takes.
C13_Witness ==
    /\ al.pc = "reclaim"
    /\ ReclaimOut(2)
    /\ rc[2].i >= 1
    /\ lst[PAGE_LIST(1)] = <<>>
    /\ lst[PAGE_LIST(2)] # <<>>

\* ------------------------------------------ the exported functions, alone
\* sgx_record_epc_page(), sgx_drop_epc_page(), sgx_free_epc_page(),
\* __sgx_free_epc_page() and the section allocator called one at a time by a
\* caller that may call them in any order on any page, with no reclaimer.
\* al is the log of the last call, kept for a drop alone.
MaxFreeLen == 3

\* The pages the caller works on: one of each section.
UnitPages == {1, NPages}

UnitLog(op, p, ret, flags) == [pc |-> "unit", op |-> op, page |-> p, ret |-> ret, flags |-> flags]

InitUnit ==
    /\ lst = [k \in ListHeads |-> <<>>]
    /\ free_cnt = [s \in Sections |-> 0]
    /\ desc = [p \in Pages |-> {}]
    /\ owner = [p \in Pages |-> EnclOwner]
    /\ hw_fail = [p \in Pages |-> 0]
    /\ encl = FreshEncl
    /\ held = Pages
    /\ swapd = [pc |-> "sleep", pass |-> 2, i |-> 1]
    /\ al = UnitLog("none", NoPage, OK, {})
    /\ rc = [r \in Reclaimers |-> IdleRc]
    /\ wr = [r \in Reclaimers |-> NoWrite]
    /\ lk = IdleLk

UnitRecord(p, flags) ==
    /\ p \in held
    /\ desc[p] \cap SGX_EPC_PAGE_RECLAIM_FLAGS = {}
    /\ Commit(sgx_record_epc_page(Mem, p, flags))
    /\ held' = held \ {p}
    /\ al' = UnitLog("none", NoPage, OK, {})
    /\ UNCHANGED <<lk, owner, hw_fail, encl, swapd, rc, wr>>

UnitDrop(p) ==
    /\ \E k \in {RECLAIMABLE, UNRECLAIMABLE} : p \in Range(lst[k])
    /\ LET x == sgx_drop_epc_page(Mem, p) IN
       /\ Commit(x.m)
       /\ held' = IF x.ret = OK THEN held \cup {p} ELSE held
       /\ al' = UnitLog("drop", p, x.ret, desc[p])
    /\ UNCHANGED <<lk, owner, hw_fail, encl, swapd, rc, wr>>

\* The page is the caller's, or is on its free list already (a double free).
UnitMayFree(p) ==
    /\ desc[p] \cap SGX_EPC_PAGE_RECLAIM_FLAGS = {}
    /\ p \in held \/ p \in Range(lst[PAGE_LIST(sgx_get_epc_section(p))])
    /\ free_cnt[sgx_get_epc_section(p)] < MaxFreeLen

UnitFree(p) ==
    /\ UnitMayFree(p)
    /\ \E eremove \in {OK, SGX_ERROR} :
          /\ Commit(sgx_free_epc_page(Mem, p, eremove))
          /\ held' = IF eremove = OK THEN held \ {p} ELSE held
          /\ al' = UnitLog("none", NoPage, OK, {})
    /\ UNCHANGED <<lk, owner, hw_fail, encl, swapd, rc, wr>>

UnitFreeNoRemove(p) ==
    /\ UnitMayFree(p)
    /\ Commit(__sgx_free_epc_page(Mem, p))
    /\ held' = held \ {p}
    /\ al' = UnitLog("none", NoPage, OK, {})
    /\ UNCHANGED <<lk, owner, hw_fail, encl, swapd, rc, wr>>

UnitAlloc(s) ==
    LET x == __sgx_alloc_epc_page_from_section(Mem, s) IN
    /\ x.page # NoPage
    /\ Commit(x.m)
    /\ held' = held \cup {x.page}
    /\ al' = UnitLog("none", NoPage, OK, {})
    /\ UNCHANGED <<lk, owner, hw_fail, encl, swapd, rc, wr>>

NextUnit ==
    \/ \E p \in UnitPages, flags \in SUBSET SGX_EPC_PAGE_RECLAIM_FLAGS : UnitRecord(p, flags)
    \/ \E p \in UnitPages : UnitDrop(p)
    \/ \E p \in UnitPages : UnitFree(p)
    \/ \E p \in UnitPages : UnitFreeNoRemove(p)
    \/ \E s \in Sections : UnitAlloc(s)

SpecUnit == InitUnit /\ [][NextUnit]_vars

\* ------------------------------------------- one pass over a long list
\* One call of sgx_reclaim_epc_pages() on a reclaimable list longer than
\* SGX_MAX_NR_TO_RECLAIM, all pages of one enclave that has no SECS page
\* here and stays open; nothing else runs.  al holds the nr_to_scan of the
\* call.
CapExtra == 2
CapSkips == 2
CapPages == 1..(SGX_MAX_NR_TO_RECLAIM + CapExtra)
CapScans ==
    {0, SGX_NR_TO_SCAN, SGX_MAX_NR_TO_RECLAIM + 1, SGX_MAX_NR_TO_RECLAIM + CapExtra + 1}

InitCap ==
    /\ lst = [k \in ListHeads |->
                IF k = RECLAIMABLE THEN [p \in CapPages |-> p] ELSE <<>>]
    /\ free_cnt = [s \in Sections |-> 0]
    /\ desc = [p \in CapPages |-> {SGX_EPC_PAGE_ENCLAVE, SGX_EPC_PAGE_RECLAIMABLE}]
    /\ owner = [p \in CapPages |-> EnclOwner]
    /\ hw_fail = [p \in CapPages |-> 0]
    /\ encl = [FreshEncl EXCEPT !.flags = {SGX_ENCL_CREATED},
                                !.pages = CapPages,
                                !.secs_child_cnt = Cardinality(CapPages)]
    /\ held = {}
    /\ swapd = [pc |-> "sleep", pass |-> 2, i |-> 1]
    /\ \E n \in CapScans : al = [pc |-> "call", n |-> n]
    /\ rc = [r \in Reclaimers |-> IdleRc]
    /\ wr = [r \in Reclaimers |-> NoWrite]
    /\ lk = IdleLk

CapStart ==
    /\ al.pc = "call"
    /\ ReclaimStart(1, al.n)
    /\ al' = [al EXCEPT !.pc = "run"]
    /\ UNCHANGED <<lk, owner, hw_fail, held, swapd, wr>>

\* The first loop; of the runs in which pages are young or have no backing,
\* those with at most CapSkips such pages are followed.
CapAge ==
    /\ ReclaimAge(1)
    /\ Len(lst'[RECLAIMABLE]) > Len(lst[RECLAIMABLE])
       => \/ rc[1].i = SGX_MAX_NR_TO_RECLAIM
          \/ Len(lst[RECLAIMABLE]) < CapSkips

NextCap ==
    \/ CapStart
    \/ CapAge
    \/ ReclaimWrite(1)
    \/ ReclaimFree(1)

SpecCap == InitCap /\ [][NextCap]_vars

\* ------------------------------------------- sgx_page_reclaimer_init()
\* The state after line 718: kthread_run() has started ksgxswapd and
\* sgx_lru_init(&sgx_global_lru) of line 724 is still to come.  sgx_global_lru
\* is a static object, so its list heads are zeroed: next is NULL, so
\* list_empty() is false and list_first_entry() is the entry of NULL.
\* sgx_drv_init() comes after sgx_page_reclaimer_init(): no enclave yet.
NullHead == <<NoPage>>

\* The EPC has the pages 1..nr.
sgx_page_cache_init(nr, s) ==
    LET ps == SelectSeq(sgx_setup_epc_section(s).unsanitized_page_list,
                        LAMBDA p : p <= nr)
    IN [page_list |-> <<>>, unsanitized_page_list |-> ps, free_cnt |-> Len(ps)]

InitBoot ==
    \E nr \in 1..NPages :
       /\ lst = [k \in ListHeads |->
                   IF k[1] = "unsanitized_page_list"
                   THEN sgx_page_cache_init(nr, k[2]).unsanitized_page_list
                   ELSE IF k \in {RECLAIMABLE, UNRECLAIMABLE}
                   THEN NullHead
                   ELSE <<>>]
       /\ free_cnt = [s \in Sections |-> sgx_page_cache_init(nr, s).free_cnt]
       /\ desc = [p \in Pages |-> {}]
       /\ owner = [p \in Pages |-> NoOwner]
       /\ hw_fail \in [Pages -> 0..MaxRemoveFail]
       /\ encl = FreshEncl
       /\ held = {}
       /\ swapd = [pc |-> "sanitize", pass |-> 1, i |-> 1]
       /\ al = IdleAl
       /\ rc = [r \in Reclaimers |-> IdleRc]
       /\ wr = [r \in Reclaimers |-> NoWrite]
       /\ lk = IdleLk

\* Line 724.
sgx_lru_init ==
    /\ lst[RECLAIMABLE] = NullHead
    /\ lst' = [lst EXCEPT ![RECLAIMABLE] = <<>>, ![UNRECLAIMABLE] = <<>>]
    /\ UNCHANGED <<lk, owner, free_cnt, desc, hw_fail, encl, held, swapd, al, rc, wr>>

\* Lines 707-708 during boot.  On the zeroed list head
\* sgx_isolate_epc_pages() reads the owner of the entry of NULL (line 367):
\* the thread dies in an oops.
BootSwapdRun ==
    IF lst[RECLAIMABLE] = NullHead /\ sgx_should_reclaim(Mem, SGX_NR_HIGH_PAGES)
    THEN /\ swapd.pc = "run"
         /\ swapd' = [swapd EXCEPT !.pc = "oops"]
         /\ UNCHANGED <<lk, owner, lst, free_cnt, desc, hw_fail, encl, held, al, rc, wr>>
    ELSE SwapdRun

NextBoot ==
    \/ sgx_sanitize_section
    \/ sgx_lru_init
    \/ SwapdWait
    \/ BootSwapdRun

SpecBoot == InitBoot /\ [][NextBoot]_vars

\* ------------------------------------------------- the locks of main.c
\* The lock calls of every function of main.c, in the order of the code, with
\* the calls that may sleep: what is in lk[t].todo is what thread t has
\* still to do.  An item is a lock call, a call out of main.c, or the call
\* of a function of main.c, which the thread replaces by one of the paths
\* through that function when it reaches it.
SECTION_LOCK(s) == <<"section->lock", s>>
LRU_LOCK == <<"lru->lock", 0>>
ENCL_LOCK == <<"encl->lock", 0>>
SpinLocks == {SECTION_LOCK(s) : s \in Sections} \cup {LRU_LOCK}

Lock(l) == <<"lock", l>>
Unlock(l) == <<"unlock", l>>
CallOut(f) == <<"call", f>>
Do(f) == <<"do", f>>

\* sgx_encl_get_backing() and sgx_encl_put_backing(); a walk of
\* encl->mm_list under srcu with mmap_read_lock(); cond_resched().
BACKING == "backing"
MM_LIST == "mm_list"
RESCHED == "cond_resched"

Cat(A, B) == {a \o b : a \in A, b \in B}

\* The verdicts of the first loop of sgx_reclaim_epc_pages() on the pages of
\* one pass: at most MaxLockPages pages.
MaxLockPages == 2
Verdicts == {"first_loop_max", "first_loop_young", "first_loop_no_backing",
             "first_loop_accept"}
VerdictSeqs == UNION {[1..n -> Verdicts] : n \in 1..MaxLockPages}

\* Lines 70-77.
locks_sgx_record_epc_page == {<<Lock(LRU_LOCK), Unlock(LRU_LOCK)>>}

\* Lines 99-106: both ways out unlock.
locks_sgx_drop_epc_page == {<<Lock(LRU_LOCK), Unlock(LRU_LOCK)>>}

\* Lines 857-860.
locks___sgx_free_epc_page ==
    {<<Lock(SECTION_LOCK(s)), Unlock(SECTION_LOCK(s))>> : s \in Sections}

\* Lines 881-885: nothing when EREMOVE fails.
locks_sgx_free_epc_page == {<<>>, <<Do("__sgx_free_epc_page")>>}

\* Lines 759-767: the sections in order, up to the one that has a page.
locks___sgx_alloc_epc_page ==
    {<<Lock(SECTION_LOCK(1)), Unlock(SECTION_LOCK(1))>>,
     <<Lock(SECTION_LOCK(1)), Unlock(SECTION_LOCK(1)),
       Lock(SECTION_LOCK(2)), Unlock(SECTION_LOCK(2))>>}

\* Fault injection for sgx_isolate_epc_pages(): the backing is looked up
\* inside lru->lock.
locks_sgx_isolate_epc_pages_backing ==
    {<<Lock(LRU_LOCK), CallOut(BACKING), Unlock(LRU_LOCK)>>}

\* Lines 359-383: kref_get_unless_zero() and list calls inside the lock.
locks_sgx_isolate_epc_pages == {<<Lock(LRU_LOCK), Unlock(LRU_LOCK)>>}

\* Lines 121-137.
locks_sgx_reclaimer_age == {<<CallOut(MM_LIST)>>}

\* Lines 155-190.
locks_sgx_reclaimer_block ==
    {<<CallOut(MM_LIST), Lock(ENCL_LOCK), Unlock(ENCL_LOCK)>>}

\* Lines 248-299: sgx_encl_ewb_cpumask() walks encl->mm_list (lines 232-243)
\* when the second EWB is not tracked either.
locks_sgx_encl_ewb == {<<>>, <<CallOut(MM_LIST)>>}

\* Lines 309-344.
locks_sgx_reclaimer_write ==
    LET secs == <<Do("sgx_drop_epc_page"), Do("sgx_free_epc_page")>> IN
    {<<Lock(ENCL_LOCK)>> \o page \o rest \o <<Unlock(ENCL_LOCK)>> :
       page \in {<<>>, <<Do("sgx_encl_ewb")>>},
       rest \in {<<>>,
                 secs,
                 <<CallOut(BACKING)>>,
                 <<CallOut(BACKING), Do("sgx_encl_ewb")>> \o secs
                     \o <<CallOut(BACKING)>>}}

\* The skip path: lines 445-452.
locks_reclaim_skip == <<Lock(LRU_LOCK), Unlock(LRU_LOCK)>>

\* One page of the first loop, lines 426-453, by verdict.
locks_first_loop(v) ==
    IF v = "first_loop_max" THEN {locks_reclaim_skip}
    ELSE IF v = "first_loop_young"
    THEN {<<Do("sgx_reclaimer_age")>> \o locks_reclaim_skip}
    ELSE IF v = "first_loop_no_backing"
    THEN {<<Do("sgx_reclaimer_age"), CallOut(BACKING)>> \o locks_reclaim_skip,
          <<CallOut(BACKING)>> \o locks_reclaim_skip}
    ELSE {<<Do("sgx_reclaimer_age"), CallOut(BACKING),
            Lock(ENCL_LOCK), Unlock(ENCL_LOCK)>>}

\* The pages of a pass, one item each, f the item of a page with verdict v.
RECURSIVE PerPage(_, _, _)
PerPage(vs, accepted_only, f) ==
    IF vs = <<>> THEN <<>>
    ELSE (IF accepted_only /\ Head(vs) # "first_loop_accept"
          THEN <<>> ELSE <<Do(IF accepted_only THEN f ELSE Head(vs))>>)
         \o PerPage(Tail(vs), accepted_only, f)

\* Lines 459-479, one page of the third loop.
locks_third_loop ==
    {<<Do("sgx_reclaimer_write"), CallOut(BACKING), Do("__sgx_free_epc_page")>>}

\* sgx_reclaim_epc_pages(): lines 399-484.
locks_sgx_reclaim_epc_pages ==
    {<<Do("sgx_isolate_epc_pages"), CallOut(RESCHED)>>}
    \cup {<<Do("sgx_isolate_epc_pages")>>
          \o PerPage(vs, FALSE, "")
          \o PerPage(vs, TRUE, "sgx_reclaimer_block")
          \o PerPage(vs, TRUE, "third_loop")
          \o <<CallOut(RESCHED)>> : vs \in VerdictSeqs}

\* sgx_oom_encl(): lines 549-587, with the sgx_drop_epc_page() and
\* sgx_free_epc_page() that sgx_encl_destroy() makes for a page.
locks_sgx_oom_encl ==
    {<<Lock(ENCL_LOCK), Unlock(ENCL_LOCK)>>,
     <<Lock(ENCL_LOCK), Unlock(ENCL_LOCK), CallOut(MM_LIST),
       Lock(ENCL_LOCK), Do("sgx_drop_epc_page"), Do("sgx_free_epc_page"),
       Unlock(ENCL_LOCK)>>}

\* sgx_epc_oom(): lines 605-619; sgx_oom_get_victim() runs inside lru->lock
\* and makes list and kref calls only.
locks_sgx_epc_oom ==
    {<<Lock(LRU_LOCK), Unlock(LRU_LOCK)>>,
     <<Lock(LRU_LOCK), Unlock(LRU_LOCK), Do("sgx_oom_encl")>>}

\* sgx_sanitize_section(): lines 630-645, one or two pages.
locks_sgx_sanitize_section ==
    UNION {LET once == <<Lock(SECTION_LOCK(s)), Unlock(SECTION_LOCK(s)),
                         CallOut(RESCHED)>>
           IN {once, once \o once} : s \in Sections}

\* sgx_alloc_epc_page(): lines 800-823, with at most one pass of its own.
locks_sgx_alloc_epc_page ==
    {<<Do("__sgx_alloc_epc_page")>>,
     <<Do("__sgx_alloc_epc_page"), Do("sgx_reclaim_epc_pages"),
       Do("__sgx_alloc_epc_page")>>}

LockBody(f) ==
    CASE f = "sgx_record_epc_page" -> locks_sgx_record_epc_page
      [] f = "sgx_drop_epc_page" -> locks_sgx_drop_epc_page
      [] f = "__sgx_free_epc_page" -> locks___sgx_free_epc_page
      [] f = "sgx_free_epc_page" -> locks_sgx_free_epc_page
      [] f = "__sgx_alloc_epc_page" -> locks___sgx_alloc_epc_page
      [] f = "sgx_alloc_epc_page" -> locks_sgx_alloc_epc_page
      [] f = "sgx_isolate_epc_pages" -> locks_sgx_isolate_epc_pages
      [] f = "sgx_reclaimer_age" -> locks_sgx_reclaimer_age
      [] f = "sgx_reclaimer_block" -> locks_sgx_reclaimer_block
      [] f = "sgx_encl_ewb" -> locks_sgx_encl_ewb
      [] f = "sgx_reclaimer_write" -> locks_sgx_reclaimer_write
      [] f = "third_loop" -> locks_third_loop
      [] f = "sgx_reclaim_epc_pages" -> locks_sgx_reclaim_epc_pages
      [] f = "sgx_oom_encl" -> locks_sgx_oom_encl
      [] f = "sgx_epc_oom" -> locks_sgx_epc_oom
      [] f = "sgx_sanitize_section" -> locks_sgx_sanitize_section
      [] f \in Verdicts -> locks_first_loop(f)

\* What a thread may call from outside main.c.
Exported ==
    {"sgx_alloc_epc_page", "sgx_free_epc_page", "__sgx_free_epc_page",
     "sgx_record_epc_page", "sgx_drop_epc_page", "sgx_reclaim_epc_pages",
     "sgx_epc_oom", "sgx_sanitize_section"}

InitLocks ==
    /\ lst = [k \in ListHeads |-> <<>>]
    /\ free_cnt = [s \in Sections |-> 0]
    /\ desc = [p \in Pages |-> {}]
    /\ owner = [p \in Pages |-> NoOwner]
    /\ hw_fail = [p \in Pages |-> 0]
    /\ encl = FreshEncl
    /\ held = {}
    /\ swapd = [pc |-> "sleep", pass |-> 2, i |-> 1]
    /\ al = IdleAl
    /\ rc = [r \in Reclaimers |-> IdleRc]
    /\ wr = [r \in Reclaimers |-> NoWrite]
    /\ lk = IdleLk

LockHolders(l) == {t \in LockThreads : l \in lk[t].has}

\* The thread calls a function of main.c.
LockBegin(t) ==
    /\ lk[t].todo = <<>>
    /\ \E f \in Exported : lk' = [lk EXCEPT ![t].todo = <<Do(f)>>]
    /\ UNCHANGED <<lst, free_cnt, desc, owner, hw_fail, encl, held, swapd, al, rc, wr>>

\* The thread enters a function and takes one of the paths through it.
LockEnter(t) ==
    /\ lk[t].todo # <<>>
    /\ Head(lk[t].todo)[1] = "do"
    /\ \E b \in LockBody(Head(lk[t].todo)[2]) :
          lk' = [lk EXCEPT ![t].todo = b \o Tail(@)]
    /\ UNCHANGED <<lst, free_cnt, desc, owner, hw_fail, encl, held, swapd, al, rc, wr>>

\* spin_lock() and mutex_lock(): the thread goes on once nobody holds the
\* lock.
LockAcquire(t) ==
    /\ lk[t].todo # <<>>
    /\ Head(lk[t].todo)[1] = "lock"
    /\ LockHolders(Head(lk[t].todo)[2]) = {}
    /\ lk' = [lk EXCEPT ![t].todo = Tail(@),
                        ![t].has = @ \cup {Head(lk[t].todo)[2]}]
    /\ UNCHANGED <<lst, free_cnt, desc, owner, hw_fail, encl, held, swapd, al, rc, wr>>

LockRelease(t) ==
    /\ lk[t].todo # <<>>
    /\ Head(lk[t].todo)[1] = "unlock"
    /\ lk' = [lk EXCEPT ![t].todo = Tail(@),
                        ![t].has = @ \ {Head(lk[t].todo)[2]}]
    /\ UNCHANGED <<lst, free_cnt, desc, owner, hw_fail, encl, held, swapd, al, rc, wr>>

LockCallOut(t) ==
    /\ lk[t].todo # <<>>
    /\ Head(lk[t].todo)[1] = "call"
    /\ lk' = [lk EXCEPT ![t].todo = Tail(@)]
    /\ UNCHANGED <<lst, free_cnt, desc, owner, hw_fail, encl, held, swapd, al, rc, wr>>

NextLocks ==
    \E t \in LockThreads :
       \/ LockBegin(t)
       \/ LockEnter(t)
       \/ LockAcquire(t)
       \/ LockRelease(t)
       \/ LockCallOut(t)

SpecLocks == InitLocks /\ [][NextLocks]_vars

\* C14: a free of a page that is already on its section's free list leaves
\* the free lists and the free counters as they are.
C14_DoubleFreeRefused ==
    [][\A p \in Pages :
          (/\ OnList(p, PAGE_LIST(sgx_get_epc_section(p)))
           /\ UnitFree(p) \/ UnitFreeNoRemove(p))
          => (lst' = lst /\ free_cnt' = free_cnt)]_vars

\* What a drop that ends a round trip must leave: success, no reclaim flag,
\* the page on neither LRU list.
C15_Restored(p) ==
    /\ al'.ret = OK
    /\ desc'[p] = {}
    /\ \A k \in LruLists : ~OnListNext(p, k)

\* C15 as stated: for any flag set, record then drop returns success,
\* restores the flags and leaves the page on no LRU list.
C15_RoundTripAnyFlags ==
    [][\A p \in Pages : UnitDrop(p) => C15_Restored(p)]_vars

\* C15: for a flag set that does not hold both RECLAIMABLE and
\* RECLAIM_IN_PROGRESS, record then drop returns success, restores the flags
\* and leaves the page on no LRU list; with both, drop returns -EBUSY and
\* changes nothing.
C15_RoundTrip ==
    [][\A p \in Pages :
          UnitDrop(p)
          => IF {SGX_EPC_PAGE_RECLAIMABLE, SGX_EPC_PAGE_RECLAIM_IN_PROGRESS}
                \subseteq desc[p]
             THEN al'.ret = EBUSY /\ lst' = lst /\ desc' = desc
             ELSE C15_Restored(p)]_vars

\* A page recorded as a reclaimable enclave page has been dropped again.
C15_Witness ==
    /\ al.op = "drop"
    /\ al.ret = OK
    /\ al.flags = {SGX_EPC_PAGE_ENCLAVE, SGX_EPC_PAGE_RECLAIMABLE}
    /\ desc[al.page] = {}
    /\ \A k \in ListHeads : ~OnList(al.page, k)

\* C16: a page that leaves a reclaimer's iso list during the first loop is
\* then the tail of the reclaimable list with RECLAIM_IN_PROGRESS clear and
\* RECLAIMABLE set, one enclave reference is put, and the step writes
\* nothing and counts nothing; the run writes back only pages that are on
\* its iso list, and pages join the iso list only when the run starts.
C16_SkippedPage ==
    [][\A r \in Reclaimers : \A p \in Pages :
          /\ (rc[r].pc = "age" /\ OnList(p, ISO(r)) /\ ~OnListNext(p, ISO(r)))
             => /\ lst'[RECLAIMABLE] # <<>>
                /\ lst'[RECLAIMABLE][Len(lst'[RECLAIMABLE])] = p
                /\ SGX_EPC_PAGE_RECLAIM_IN_PROGRESS \notin desc'[p]
                /\ SGX_EPC_PAGE_RECLAIMABLE \in desc'[p]
                /\ encl'.refcount = encl.refcount - 1
                /\ rc'[r] = rc[r]
                /\ wr' = wr
                /\ \A k \in ListHeads \ {RECLAIMABLE} : ~OnListNext(p, k)
          /\ (~OnList(p, ISO(r)) /\ OnListNext(p, ISO(r)))
             => rc[r].pc = "idle"
          /\ (wr'[r] # wr[r] /\ wr'[r] # NoWrite /\ wr'[r].page = p)
             => OnList(p, ISO(r)) /\ rc[r].pc = "write"]_vars

\* A reclaimer in its first loop has accepted one page and has put the
\* other back: that page is the tail of the reclaimable list.
C16_Witness ==
    \E r \in Reclaimers :
       /\ rc[r].pc = "age"
       /\ rc[r].i = 1
       /\ Len(lst[ISO(r)]) = 1
       /\ lst[RECLAIMABLE] # <<>>
       /\ LET p == lst[RECLAIMABLE][Len(lst[RECLAIMABLE])] IN
          Reclaimable(p) /\ ~InProgress(p)

\* The step in which reclaimer r calls sgx_isolate_epc_pages().
IsolateStep(r) == rc[r].pc = "idle" /\ rc'[r].pc # "idle"

\* What the call of sgx_isolate_epc_pages() made in this state returns, with
\* the nr_to_scan of the call (lines 708 and 822).
IsolateCall(r) ==
    [n |-> SGX_NR_TO_SCAN,
     x |-> sgx_isolate_epc_pages(Mem, encl, SGX_NR_TO_SCAN, r)]

\* The pages a step takes off the reclaimable list and puts on no list.
DroppedFromLru ==
    {p \in Pages : OnList(p, RECLAIMABLE) /\ \A k \in ListHeads : ~OnListNext(p, k)}

OomVictim == IF al'.pc = "oom_mark" THEN al'.page ELSE NoPage

\* The places of the unreclaimable list whose page has an owner reference
\* that can be taken.
AcquirablePlaces ==
    {i \in 1..Len(lst[UNRECLAIMABLE]) : Acquirable(lst[UNRECLAIMABLE][i])}

\* C18 as stated: victim selection takes the returned page alone off the
\* unreclaimable list; with no victim every list is as it was.
C18_OnlyVictimLeaves ==
    [][OomStart
       => /\ desc' = desc
          /\ IF OomVictim = NoPage
             THEN lst' = lst
             ELSE lst' = list_del(lst, OomVictim)]_vars

\* C18: victim selection takes off the unreclaimable list the returned page
\* and every page before it (none of which has an owner reference that can
\* be taken); the pages after the victim stay, in order; the victim is the
\* first page with a reference that can be taken, and with no such page the
\* list ends empty.  No other list and no flag changes.
C18_ExaminedLeave ==
    [][OomStart
       => LET l == lst[UNRECLAIMABLE] IN
          /\ desc' = desc
          /\ \A k \in ListHeads \ {UNRECLAIMABLE} : lst'[k] = lst[k]
          /\ IF AcquirablePlaces = {}
             THEN OomVictim = NoPage /\ lst'[UNRECLAIMABLE] = <<>>
             ELSE LET i == CHOOSE j \in AcquirablePlaces :
                              \A n \in AcquirablePlaces : j <= n
                  IN /\ OomVictim = l[i]
                     /\ lst'[UNRECLAIMABLE] = SubSeq(l, i + 1, Len(l))
                     /\ encl'.refcount = encl.refcount + 1]_vars

\* Victim selection ran on an enclave with no reference left: the SECS page
\* is off the unreclaimable list with its flags as they were.
C18_Witness ==
    /\ encl.refcount = 0
    /\ encl.secs # NoPage
    /\ SGX_EPC_PAGE_ENCLAVE \in desc[encl.secs]
    /\ \A k \in ListHeads : ~OnList(encl.secs, k)
    /\ al.pc = "idle"

\* The pages on the section free lists.
NrOnFreeLists == Len(lst[PAGE_LIST(1)]) + Len(lst[PAGE_LIST(2)])

Min(a, b) == IF a <= b THEN a ELSE b

\* C19: a reclaim run isolates at most nr_to_scan pages; the first loop
\* accepts a page only while fewer than SGX_MAX_NR_TO_RECLAIM are accepted,
\* so backing[] is indexed below its length; the value the run returns is
\* the number of pages it has put on free lists, at most
\* min(nr_to_scan, SGX_MAX_NR_TO_RECLAIM), and 0 when it isolated nothing.
C19_PassBounds ==
    [][/\ IsolateStep(1)
          => /\ Len(lst'[ISO(1)]) <= al.n
             /\ (lst'[ISO(1)] = <<>> => ReclaimOut(1)' /\ rc'[1].i = 0)
       /\ (rc[1].pc = "age" /\ rc'[1].pc = "age" /\ rc'[1].i # rc[1].i)
          => rc[1].i < SGX_MAX_NR_TO_RECLAIM /\ rc'[1].i = rc[1].i + 1
       /\ rc'[1].pc \in {"write", "free"}
          => /\ Len(lst'[ISO(1)]) <= SGX_MAX_NR_TO_RECLAIM
             /\ rc'[1].i <= Min(al.n, SGX_MAX_NR_TO_RECLAIM)
       /\ rc'[1].pc = "write" => rc'[1].i = NrOnFreeLists'
       /\ ReclaimOut(1)' => free_cnt'[1] + free_cnt'[2] = rc'[1].i]_vars

\* A run asked for more pages than the list holds has returned
\* SGX_MAX_NR_TO_RECLAIM: the pages it isolated beyond that number are back
\* on the reclaimable list.
C19_Witness ==
    /\ al.pc = "run"
    /\ al.n > Cardinality(CapPages)
    /\ ReclaimOut(1)
    /\ rc[1].i = SGX_MAX_NR_TO_RECLAIM
    /\ NrOnFreeLists = SGX_MAX_NR_TO_RECLAIM
    /\ lst[RECLAIMABLE] = <<SGX_MAX_NR_TO_RECLAIM + 1, SGX_MAX_NR_TO_RECLAIM + 2>>

\* The steps of ksgxswapd: sanitization, its wait and the passes it runs.
SwapdThread ==
    \/ sgx_sanitize_section
    \/ SwapdWait
    \/ SwapdRun
    \/ SwapdReclaimDone
    \/ ReclaimAge(1)
    \/ ReclaimWrite(1)
    \/ ReclaimFree(1)

\* The scheduler runs ksgxswapd when it is runnable; kthread_stop() is never
\* called.
SpecSwapd == Init /\ [][Next]_vars /\ WF_vars(SwapdThread)

\* Fewer free pages than the watermark by the counters, and a page on the
\* reclaimable list.
BelowWithCandidate(watermark) ==
    /\ free_cnt[1] + free_cnt[2] < watermark
    /\ lst[RECLAIMABLE] # <<>>

\* C20 as stated, its last part: a swap thread woken by the allocation path
\* runs a reclaim pass.
C20_WokenRunsPass == (swapd.pc = "woken") ~> (swapd.pc = "reclaim")

\* C20: the swap thread leaves its wait for a pass only after sanitization
\* and only when it sees fewer than SGX_NR_HIGH_PAGES free pages and a
\* reclaimable page, and it starts the pass only when it sees that again;
\* the pass is sgx_reclaim_epc_pages(SGX_NR_TO_SCAN, false) on the global
\* LRU.  The allocation path on its return wakes a sleeping swap thread
\* exactly when it sees fewer than SGX_NR_LOW_PAGES free pages and a
\* reclaimable page.  A woken thread that does not see the condition sleeps
\* again without a pass.
C20_WakeProtocol ==
    [][/\ (swapd.pc # "run" /\ swapd'.pc = "run")
          => /\ swapd.pc \in {"wait", "woken"}
             /\ BelowWithCandidate(SGX_NR_HIGH_PAGES)
       /\ (swapd.pc # "reclaim" /\ swapd'.pc = "reclaim")
          => /\ swapd.pc = "run"
             /\ BelowWithCandidate(SGX_NR_HIGH_PAGES)
             /\ ~ignore_age
             /\ IsolateStep(1)
             /\ lst' = IsolateCall(1).x.m.lst
       /\ (swapd.pc \in {"wait", "woken", "run"} /\ swapd'.pc # swapd.pc
           /\ ~BelowWithCandidate(SGX_NR_HIGH_PAGES))
          => /\ swapd'.pc = (IF swapd.pc = "run" THEN "wait" ELSE "sleep")
             /\ UNCHANGED <<lst, free_cnt, desc, rc>>
       /\ (swapd.pc = "sleep" /\ swapd'.pc # "sleep")
          => /\ swapd'.pc = "woken"
             /\ al.pc = "out" /\ al'.pc = "idle"
             /\ BelowWithCandidate(SGX_NR_LOW_PAGES)
       /\ (al.pc = "out" /\ al'.pc = "idle" /\ swapd.pc = "sleep"
           /\ BelowWithCandidate(SGX_NR_LOW_PAGES))
          => swapd'.pc = "woken"]_vars

\* The swap thread was woken by an allocation, looked at the free pages and
\* went back to sleep: the pages had been freed meanwhile.
C20_Witness ==
    /\ swapd.pc = "woken"
    /\ ~BelowWithCandidate(SGX_NR_HIGH_PAGES)

\* The spinlocks thread t holds.
SpinHeld(t) == lk[t].has \cap SpinLocks

\* Thread t is inside a function of main.c and its next step is not the
\* acquisition of a lock somebody holds.
LockCanStep(t) ==
    /\ lk[t].todo # <<>>
    /\ Head(lk[t].todo)[1] = "lock" => LockHolders(Head(lk[t].todo)[2]) = {}

\* C21: a thread that holds a section lock or an LRU lock holds no other
\* spinlock, and what it does next is neither the acquisition of a lock
\* (the enclave lock or a second spinlock), nor a call of the backing
\* interface, a walk of the mapping list or cond_resched(), nor the call of
\* a function that could do one of these; and whenever threads are inside
\* main.c one of them can take its next step.
C21_LockDiscipline ==
    /\ \A t \in LockThreads :
          SpinHeld(t) # {}
          => /\ Cardinality(SpinHeld(t)) = 1
             /\ lk[t].todo # <<>>
             /\ Head(lk[t].todo)[1] \notin {"lock", "call", "do"}
    /\ \A l \in SpinLocks \cup {ENCL_LOCK} : Cardinality(LockHolders(l)) <= 1
    /\ (\E t \in LockThreads : lk[t].todo # <<>>)
       => \E t \in LockThreads : LockCanStep(t)

\* One thread holds the enclave lock and, inside it, the LRU lock (the SECS
\* page is dropped in sgx_reclaimer_write()); the other waits for the
\* enclave lock.
C21_Witness ==
    \E t, u \in LockThreads :
       /\ lk[t].has = {ENCL_LOCK, LRU_LOCK}
       /\ lk[u].todo # <<>>
       /\ Head(lk[u].todo) = Lock(ENCL_LOCK)
       /\ lk[u].has = {}

\* The enclave references reclaimer r holds: one for each page on its iso
\* list, but for the page it has written back and not yet freed.
RefsOfReclaimer(r) ==
    Len(lst[ISO(r)]) - (IF rc[r].pc = "free" THEN 1 ELSE 0)

\* The reference sgx_epc_oom() holds from sgx_oom_get_victim() to the
\* kref_put() of sgx_oom_encl().
RefsOfOom == IF al.pc \in OomPcs THEN 1 ELSE 0

\* The reference of the opener of the enclave.
RefsOfOwner == IF encl.open THEN 1 ELSE 0

\* C22: the reference count of the enclave is the opener's reference plus
\* one for every page a running reclaim pass holds isolated and one for a
\* running sgx_epc_oom(); so a pass or an OOM kill that has returned has put
\* every reference it took, and no put brings the count below the
\* references of the others.
C22_RefBalance ==
    /\ encl.refcount
       = RefsOfOwner + RefsOfReclaimer(1) + RefsOfReclaimer(2) + RefsOfOom
    /\ \A r \in Reclaimers : ReclaimOut(r) => RefsOfReclaimer(r) = 0

\* The swap thread has finished a pass that wrote a page back while
\* sgx_epc_oom() holds the enclave it is about to destroy: one reference is
\* the opener's, one the OOM killer's.
C22_Witness ==
    /\ ReclaimOut(1)
    /\ rc[1].i >= 1
    /\ al.pc = "oom_destroy"
    /\ encl.refcount = 2

\* C23: when ksgxswapd looks at the reclaimable list (in
\* sgx_should_reclaim(), once it has found fewer free pages than
\* SGX_NR_HIGH_PAGES) or isolates from it, sgx_lru_init() has run.
C23_LruInitFirst ==
    [][(/\ swapd.pc \in {"wait", "woken", "run"}
        /\ swapd' # swapd
        /\ sgx_nr_free_pages(Mem) < SGX_NR_HIGH_PAGES)
       => lst[RECLAIMABLE] # NullHead]_vars

\* C24: when sgx_alloc_epc_page() decides to return -ENOMEM, no reclaim pass
\* of another thread holds isolated pages that it will put on a free list or
\* back on the reclaimable list.
C24_NoSpuriousOom ==
    [][(al.pc = "miss" /\ al'.pc = "out" /\ al'.ret = ENOMEM)
       => \A r \in Reclaimers : lst[ISO(r)] = <<>>]_vars

====
